---- MODULE Spec2Model ----
(***************************************************************************)
(* A model of the Takikawa octree feature encoding (takikawa_encoding.cuh): *)
(* the constructor, forward_impl with kernel_takikawa, and backward_impl    *)
(* with kernel_takikawa_backward and kernel_takikawa_backward_input.        *)
(*                                                                          *)
(* Arithmetic is exact fixed point.  A coordinate is a numerator over       *)
(* PosDen, an interpolation weight per axis a numerator over WDen, a        *)
(* corner weight (a product of three of them) a numerator over WScale.      *)
(* Outputs and parameter gradients are therefore kept in units of 1/WScale, *)
(* derivative-cache entries in units of 1/DScale.  Floating-point rounding  *)
(* (of float and of __half) is not modelled.                                *)
(***************************************************************************)
EXTENDS Integers, Sequences, FiniteSets, TLC

\* ---------------------------------------------------------------- state
VARIABLES
    enc,              \* template and constructor arguments of the encoder
    status,           \* "new", "ok" (constructed), "threw", "fault"
    m_n_output_dims,  \* TakikawaEncoding::m_n_output_dims
    m_n_to_pad,       \* TakikawaEncoding::m_n_to_pad
    params,           \* the parameter buffer (this->params())
    gradients,        \* the gradient buffer (this->gradients()), of type T
    input,            \* the batch: a sequence of sample positions
    dL_doutput,       \* the upstream gradient of the batch
    output,           \* the caller's output matrix, output[<<row, i>>]
    ctx,              \* the ForwardContext the last forward returned
    dL_dinput,        \* the caller's input-gradient matrix, dL_dinput[<<j, i>>]
    calls,            \* the backward calls made, with the buffers before each
    last_fwd,         \* the last forward call
    skipped,          \* a backward kernel took the branch without an update
    pc,               \* "idle", or "scatter" while kernel_takikawa_backward runs
    tasks,            \* per thread of the running kernel, its remaining atomics
    accum,            \* the buffer the running kernel accumulates into
    pending,          \* the arguments of the backward call that is running
    last_set,         \* the last set_padded_output_width call and its outcome
    m_surface,        \* CudaSurface2D::m_surface: 0, or a surface object handle
    m_array,          \* CudaSurface2D::m_array: the array held, or none
    m_size,           \* CudaSurface2D::m_size, <<x, y>>
    m_n_channels,     \* CudaSurface2D::m_n_channels
    g_total_n_bytes_allocated,  \* the std::atomic<size_t> counter, as limbs
    n_bytes_elsewhere,  \* what the program's other allocations add to it
    surface_calls     \* the free and resize calls made on the surface

vars == <<enc, status, m_n_output_dims, m_n_to_pad, params, gradients, input,
          dL_doutput, output, ctx, dL_dinput, calls, last_fwd, skipped, pc,
          tasks, accum, pending, last_set, m_surface, m_array, m_size,
          m_n_channels, g_total_n_bytes_allocated, n_bytes_elsewhere,
          surface_calls>>

\* the state of the encoder and of its caller's buffers
encoder_vars == <<enc, status, m_n_output_dims, m_n_to_pad, params, gradients, input, dL_doutput, output, ctx, dL_dinput, calls, last_fwd, skipped, pc, tasks, accum, pending, last_set>>

\* the state of the CudaSurface2D and of the allocation counter
surface_vars == <<m_surface, m_array, m_size, m_n_channels, g_total_n_bytes_allocated, n_bytes_elsewhere, surface_calls>>

\* ------------------------------------------------------------------ scales
PosDen == 2 * 2
WDen == (PosDen * PosDen * PosDen) \div 2
WScale == WDen * WDen * WDen
DDen == 2 * PosDen
DScale == WDen * WDen * DDen

\* ------------------------------------------------------------------ bounds
\* the largest batch (number of samples, input.n()) a call is given
MaxBatch == 2
\* the number of backward calls a behaviour makes
MaxBackward == 1
\* the number of backward calls a behaviour of the repeated-step
\* specification makes
MaxRepeat == 2
\* the number of backward kernels a behaviour runs atomic by atomic
MaxLaunch == 1

\* --------------------------------------------------------- input domains
\* values of the template parameter N_FEATURES_PER_LEVEL that are tried
FeatureWidths == {1, 2, 3}
\* the parameter storage type T
StorageTypes == {"float", "half"}
\* TCNN_MIN_GPU_ARCH, and the __CUDA_ARCH__ the kernel is compiled for
Archs == {53, 61}
InterpolationType == {"Linear", "Smoothstep"}
GradientMode == {"Ignore", "Overwrite", "Add"}
\* padded output widths the owning network asks for
PaddedWidths == {2, 3, 4, 6, 8}
\* starting_level arguments that are tried
StartingLevels == {0, 1, 3, 4}
Dims == 1..3

\* ------------------------------------------------------------ the octree
\* TriangleOctree::depth(): the number of levels of the octree below
m_octree_depth == 3

\* TriangleOctreeNode::children per node, child octant bx + 2*by + 4*bz
\* (-1: no child).  Node 0 is the root; nodes 1 and 2 are its octants 6 and
\* 7, node 3 is octant 5 of node 1.
octree_nodes ==
    [n \in 0..3 |->
        CASE n = 0 -> <<-1, -1, -1, -1, -1, -1, 1, 2>>
          [] n = 1 -> <<-1, -1, -1, -1, -1, 3, -1, -1>>
          [] OTHER -> <<-1, -1, -1, -1, -1, -1, -1, -1>>]

\* TriangleOctreeDualNode::vertices per node: the 8 corner vertex indices,
\* corner c at bit pattern c, welded where two cells meet at a lattice point.
octree_dual_nodes ==
    [n \in 0..3 |->
        CASE n = 0 -> <<0, 1, 2, 3, 4, 5, 6, 7>>
          [] n = 1 -> <<8, 9, 10, 11, 12, 13, 6, 14>>
          [] n = 2 -> <<9, 15, 11, 16, 13, 17, 14, 7>>
          [] OTHER -> <<18, 19, 20, 21, 22, 13, 23, 24>>]

\* TriangleOctree::n_vertices()
n_vertices == 25

\* sample coordinates (numerators over PosDen): the root's centroid (its
\* traversal stops after two levels), a generic point that descends the full
\* depth, and a point whose octant of the root is unpopulated
Points == {<<2, 2, 2>>, <<1, 2, 3>>, <<3, 0, 1>>}

\* sample coordinates on cell boundaries: a face of the root cell at 1 (the
\* local coordinate stays 1 at the next level), a face at 0, and an edge
BoundaryPoints == {<<4, 2, 3>>, <<0, 3, 2>>, <<4, 4, 0>>}

\* the upstream gradient dL_dy(k, i) of a batch: all ones, or row k + 1
DLDY == {"ones", "rows"}
dL_dy(dy, k, i) == IF dy = "ones" THEN 1 ELSE k + 1

\* what uninitialised device memory may hold
Uninit == {0, -1}

\* ------------------------------------------------------------- traverse
Bit(idx, dim) == (idx \div (2 ^ (dim - 1))) % 2

RECURSIVE descend(_, _, _, _, _)
descend(node, depth, pos, max_depth, visits) ==
    LET v == Append(visits, [node |-> node, level |-> depth, pos |-> pos])
        b == [d \in Dims |-> IF 2 * pos[d] >= PosDen THEN 1 ELSE 0]
        child == octree_nodes[node][1 + b[1] + 2 * b[2] + 4 * b[3]]
    IN  IF depth + 1 >= max_depth \/ child < 0
        THEN [visits |-> v, level |-> depth + 1]
        ELSE descend(child, depth + 1,
                     [d \in Dims |-> 2 * pos[d] - PosDen * b[d]], max_depth, v)

\* traverse(nodes, dual_nodes, max_depth, pos, visitor): the nodes visited,
\* one per level from the root on, with the point's position local to each
\* node's cell, and the level reported: the first level that was not visited.
traverse(max_depth, pos) ==
    IF max_depth <= 0 THEN [visits |-> <<>>, level |-> 0]
    ELSE descend(0, 0, pos, max_depth, <<>>)

\* --------------------------------------------------------- interpolation
\* smoothstep(x) = x^2 (3 - 2x), a numerator over WDen
smoothstep(p) == (p * p * (3 * PosDen - 2 * p)) \div 2
\* smoothstep_derivative(x) = 6 x (1 - x), a numerator over DDen
smoothstep_derivative(p) == (6 * p * (PosDen - p)) \div 2
\* the position taken from the smoothstep's derivative
kernel_pos_FromDerivative(interpolation_type, pos) ==
    [d \in Dims |-> IF interpolation_type = "Linear"
                    THEN pos[d] * (WDen \div PosDen)
                    ELSE smoothstep_derivative(pos[d]) * (WDen \div DDen)]

\* the position as the kernels use it for the weights, a numerator over WDen
kernel_pos(interpolation_type, pos) ==
    [d \in Dims |-> IF interpolation_type = "Linear"
                    THEN pos[d] * (WDen \div PosDen)
                    ELSE smoothstep(pos[d])]
\* pos_derivative, a numerator over DDen
kernel_pos_derivative(interpolation_type, pos) ==
    [d \in Dims |-> IF interpolation_type = "Linear"
                    THEN DDen
                    ELSE smoothstep_derivative(pos[d])]
\* the corner weight with the two branches of the bit test exchanged
corner_weight_Swapped(idx, w) ==
    LET f(d) == IF Bit(idx, d) = 0 THEN w[d] ELSE WDen - w[d]
    IN  f(1) * f(2) * f(3)

\* the weight of corner idx: the product over the axes of pos or 1 - pos
corner_weight(idx, w) ==
    LET f(d) == IF Bit(idx, d) = 0 THEN WDen - w[d] ELSE w[d]
    IN  f(1) * f(2) * f(3)

\* ---------------------------------------------------------------- helpers
RECURSIVE SeqSum(_)
SeqSum(s) == IF s = <<>> THEN 0 ELSE Head(s) + SeqSum(Tail(s))

RECURSIVE Flatten(_)
Flatten(ss) == IF ss = <<>> THEN <<>> ELSE Head(ss) \o Flatten(Tail(ss))

Max(a, b) == IF a >= b THEN a ELSE b

\* a store buf[idx] = val
Store(buf, idx, val) == [buf EXCEPT ![idx] = val]

\* the stores writes[lo..hi] done in their order (by halves, the first half
\* evaluated before the second is begun)
RECURSIVE StoreRange(_, _, _, _)
StoreRange(buf, writes, lo, hi) ==
    IF lo > hi THEN buf
    ELSE IF lo = hi THEN Store(buf, writes[lo].idx, writes[lo].val)
    ELSE LET mid == (lo + hi) \div 2
             first == StoreRange(buf, writes, lo, mid)
         IN  IF DOMAIN first = {} THEN first
             ELSE StoreRange(first, writes, mid + 1, hi)
StoreAll(buf, writes) == StoreRange(buf, writes, 1, Len(writes))

\* ------------------------------------------------------- derived sizes
\* TakikawaEncoding::n_levels()
n_levels(starting_level) == m_octree_depth - starting_level
\* a parameter buffer that is one vertex short
n_params_OneVertexShort(F) == F * (n_vertices - 1)

\* TakikawaEncoding::n_params()
n_params(F) == F * n_vertices
\* accumulation in the storage type whatever the feature width and the
\* architecture
grad_t_AlwaysT(F, T, min_arch) == T

\* TakikawaEncoding::grad_t
grad_t(F, T, min_arch) ==
    IF min_arch >= 60
    THEN (IF F = 1 THEN "float" ELSE T)
    ELSE "float"

\* the parameter buffer the owning network hands to the encoder
InitialParams(F) == [k \in 0..(n_params(F) - 1) |-> 1 + ((3 * k) % 11)]

\* ------------------------------------------------------ kernel_takikawa
\* the interpolated feature of one visited node (lines 79-96)
takikawa_result(F, interpolation_type, grid, visit, feature) ==
    LET pos == kernel_pos(interpolation_type, visit.pos)
        vertices == octree_dual_nodes[visit.node]
    IN  SeqSum([c \in 1..8 |->
            corner_weight(c - 1, pos) * grid[vertices[c] * F + feature]])

\* the visitor writing at every level, at the row of the octree level
takikawa_out_writes_EveryLevel(F, starting_level, interpolation_type, grid, visit, i) ==
    [f \in 1..F |->
        [idx |-> <<visit.level * F + (f - 1), i>>,
         val |-> takikawa_result(F, interpolation_type, grid, visit, f - 1)]]

\* the visitor's stores to data_out at one visited node (lines 56-60, 77-102)
takikawa_out_writes(F, starting_level, interpolation_type, grid, visit, i) ==
    IF visit.level < starting_level THEN <<>>
    ELSE LET level == visit.level - starting_level
         IN  [f \in 1..F |->
                [idx |-> <<level * F + (f - 1), i>>,
                 val |-> takikawa_result(F, interpolation_type, grid, visit, f - 1)]]

\* the derivative without the per-level step factor
takikawa_grad_NoScale(F, interpolation_type, grid, visit, grad_dim, feature) ==
    LET pos == kernel_pos(interpolation_type, visit.pos)
        pos_derivative == kernel_pos_derivative(interpolation_type, visit.pos)
        vertices == octree_dual_nodes[visit.node]
        dim(non_grad_dim) ==
            IF non_grad_dim >= grad_dim THEN non_grad_dim + 1 ELSE non_grad_dim
        factor(idx, non_grad_dim) ==
            IF Bit(idx, non_grad_dim + 1) = 0
            THEN WDen - pos[dim(non_grad_dim) + 1]
            ELSE pos[dim(non_grad_dim) + 1]
        weight(idx) == factor(idx, 0) * factor(idx, 1)
        child_bit(idx, non_grad_dim) ==
            IF Bit(idx, non_grad_dim + 1) = 0 THEN 0 ELSE 2 ^ dim(non_grad_dim)
        child_idx(idx) == child_bit(idx, 0) + child_bit(idx, 1)
        val_left(idx) == grid[vertices[child_idx(idx) + 1] * F + feature]
        val_right(idx) ==
            grid[vertices[child_idx(idx) + (2 ^ grad_dim) + 1] * F + feature]
    IN  SeqSum([k \in 1..4 |->
            weight(k - 1) * (val_right(k - 1) - val_left(k - 1))
                * pos_derivative[grad_dim + 1]])

\* the derivative of one feature along grad_dim at one visited node
\* (lines 106-140); grad_dim is 0, 1 or 2
takikawa_grad(F, interpolation_type, grid, visit, grad_dim, feature) ==
    LET pos == kernel_pos(interpolation_type, visit.pos)
        pos_derivative == kernel_pos_derivative(interpolation_type, visit.pos)
        vertices == octree_dual_nodes[visit.node]
        scale == 2 ^ visit.level
        dim(non_grad_dim) ==
            IF non_grad_dim >= grad_dim THEN non_grad_dim + 1 ELSE non_grad_dim
        factor(idx, non_grad_dim) ==
            IF Bit(idx, non_grad_dim + 1) = 0
            THEN WDen - pos[dim(non_grad_dim) + 1]
            ELSE pos[dim(non_grad_dim) + 1]
        weight(idx) == scale * factor(idx, 0) * factor(idx, 1)
        child_bit(idx, non_grad_dim) ==
            IF Bit(idx, non_grad_dim + 1) = 0 THEN 0 ELSE 2 ^ dim(non_grad_dim)
        child_idx(idx) == child_bit(idx, 0) + child_bit(idx, 1)
        val_left(idx) == grid[vertices[child_idx(idx) + 1] * F + feature]
        val_right(idx) ==
            grid[vertices[child_idx(idx) + (2 ^ grad_dim) + 1] * F + feature]
    IN  SeqSum([k \in 1..4 |->
            weight(k - 1) * (val_right(k - 1) - val_left(k - 1))
                * pos_derivative[grad_dim + 1]])

\* the visitor's stores to dy_dx with a sample stride of two axes
takikawa_dy_dx_writes_ShortStride(F, L, starting_level, interpolation_type, grid, visit, i) ==
    IF visit.level < starting_level THEN <<>>
    ELSE LET level == visit.level - starting_level
             n_features == F * L
             fan_out_grad == n_features * 2
         IN  Flatten([g \in 1..3 |->
                [f \in 1..F |->
                    [idx |-> i * fan_out_grad + level * F
                                + (g - 1) * n_features + (f - 1),
                     val |-> takikawa_grad(F, interpolation_type, grid, visit,
                                           g - 1, f - 1)]]])

\* the visitor's stores to dy_dx at one visited node (lines 105-145)
takikawa_dy_dx_writes(F, L, starting_level, interpolation_type, grid, visit, i) ==
    IF visit.level < starting_level THEN <<>>
    ELSE LET level == visit.level - starting_level
             n_features == F * L
             fan_out_grad == n_features * 3
         IN  Flatten([g \in 1..3 |->
                [f \in 1..F |->
                    [idx |-> i * fan_out_grad + level * F
                                + (g - 1) * n_features + (f - 1),
                     val |-> takikawa_grad(F, interpolation_type, grid, visit,
                                           g - 1, f - 1)]]])

\* the kernel without the zero fill
takikawa_zero_writes_None(F, L, starting_level, ret, i) == <<>>

\* the zero fill of the levels that were not reached (lines 149-158)
takikawa_zero_writes(F, L, starting_level, ret, i) ==
    LET level == Max(0, ret - starting_level)
    IN  IF level >= L THEN <<>>
        ELSE [k \in 1..((L - level) * F) |->
                [idx |-> <<level * F + (k - 1), i>>, val |-> 0]]

\* one thread of kernel_takikawa: sample i at position pos
takikawa_thread_out(F, L, starting_level, interpolation_type, grid, pos, i) ==
    LET t == traverse(L + starting_level, pos)
    IN  Flatten([v \in 1..Len(t.visits) |->
            takikawa_out_writes(F, starting_level, interpolation_type, grid,
                                t.visits[v], i)])
        \o takikawa_zero_writes(F, L, starting_level, t.level, i)

takikawa_thread_dy_dx(F, L, starting_level, interpolation_type, grid, pos, i) ==
    LET t == traverse(L + starting_level, pos)
    IN  Flatten([v \in 1..Len(t.visits) |->
            takikawa_dy_dx_writes(F, L, starting_level, interpolation_type, grid,
                                  t.visits[v], i)])

\* The threads' stores are the same at every call with the same arguments, so
\* they are tabulated once for the parameter buffer the encoder starts with.
TableF == {1, 2}
TableLevels == 0..(m_octree_depth - 1)
TableI == 0..(MaxBatch - 1)
InitialParamsTable == [F \in FeatureWidths |-> InitialParams(F)]
ThreadOutTable ==
    [F \in TableF, s \in TableLevels, t \in InterpolationType, p \in Points,
     i \in TableI |->
        takikawa_thread_out(F, n_levels(s), s, t, InitialParamsTable[F], p, i)]
ThreadDyDxTable ==
    [F \in TableF, s \in TableLevels, t \in InterpolationType, p \in Points,
     i \in TableI |->
        takikawa_thread_dy_dx(F, n_levels(s), s, t, InitialParamsTable[F], p, i)]
Tabulated(F, L, starting_level, interpolation_type, grid, pos, i) ==
    /\ F \in TableF
    /\ starting_level \in TableLevels
    /\ interpolation_type \in InterpolationType
    /\ pos \in Points
    /\ i \in TableI
    /\ L = n_levels(starting_level)
    /\ grid = InitialParamsTable[F]

\* kernel_takikawa over the batch: every thread's stores to data_out
kernel_takikawa_out(F, L, starting_level, interpolation_type, grid, data_in, data_out) ==
    StoreAll(data_out,
        Flatten([n \in 1..Len(data_in) |->
            IF Tabulated(F, L, starting_level, interpolation_type, grid,
                         data_in[n], n - 1)
            THEN ThreadOutTable[F, starting_level, interpolation_type,
                                data_in[n], n - 1]
            ELSE takikawa_thread_out(F, L, starting_level, interpolation_type,
                                     grid, data_in[n], n - 1)]))

\* kernel_takikawa over the batch: every thread's stores to dy_dx
kernel_takikawa_dy_dx(F, L, starting_level, interpolation_type, grid, data_in, dy_dx) ==
    StoreAll(dy_dx,
        Flatten([n \in 1..Len(data_in) |->
            IF Tabulated(F, L, starting_level, interpolation_type, grid,
                         data_in[n], n - 1)
            THEN ThreadDyDxTable[F, starting_level, interpolation_type,
                                 data_in[n], n - 1]
            ELSE takikawa_thread_dy_dx(F, L, starting_level, interpolation_type,
                                       grid, data_in[n], n - 1)]))

\* --------------------------------------------- kernel_takikawa_backward
\* a plain store in place of the atomic read-modify-write
AtomicAdd_PlainStore(buf, idx, val) == [buf EXCEPT ![idx] = val]

\* atomicAdd on one address
AtomicAdd(buf, idx, val) == [buf EXCEPT ![idx] = @ + val]

\* one atomic operation: a sequence of adds done as one (atomicAdd(float*)
\* adds to one address, atomicAdd(__half2*) to two adjacent ones)
RECURSIVE atomicAdd(_, _)
atomicAdd(buf, op) ==
    IF op = <<>> THEN buf
    ELSE atomicAdd(AtomicAdd(buf, Head(op).idx, Head(op).val), Tail(op))

\* whether the kernel is compiled with the atomicAdd(__half2) path (line 247)
HasHalf2(cuda_arch) == cuda_arch >= 60

\* the atomic operations of the visitor at one corner (lines 245-266)
backward_corner_ops(F, GRAD_T, cuda_arch, param_idx, grad, weight) ==
    IF HasHalf2(cuda_arch) /\ F > 1 /\ GRAD_T = "half"
    THEN [h \in 1..((F + 1) \div 2) |->
            <<[idx |-> param_idx + 2 * (h - 1),
               val |-> grad[2 * (h - 1)] * weight],
              [idx |-> param_idx + 2 * (h - 1) + 1,
               val |-> grad[2 * (h - 1) + 1] * weight]>>]
    ELSE IF GRAD_T = "half"
         THEN <<>>
         ELSE [f \in 1..F |->
                <<[idx |-> param_idx, val |-> grad[f - 1] * weight]>>]

\* whether the visitor takes the branch that makes no update (lines 257-259)
backward_skips(F, GRAD_T, cuda_arch) ==
    ~(HasHalf2(cuda_arch) /\ F > 1 /\ GRAD_T = "half") /\ GRAD_T = "half"

\* the visitor using the local position as it is in every mode
backward_visit_ops_NoSmoothstep(F, GRAD_T, cuda_arch, starting_level, interpolation_type, dy, visit, i) ==
    IF visit.level < starting_level THEN <<>>
    ELSE LET level == visit.level - starting_level
             pos == [d \in Dims |-> visit.pos[d] * (WDen \div PosDen)]
             grad == [f \in 0..(F - 1) |-> dL_dy(dy, F * level + f, i)]
             vertices == octree_dual_nodes[visit.node]
         IN  Flatten([c \in 1..8 |->
                backward_corner_ops(F, GRAD_T, cuda_arch, vertices[c] * F, grad,
                                    corner_weight(c - 1, pos))])

\* the atomic operations of the visitor at one visited node (lines 210-268)
backward_visit_ops(F, GRAD_T, cuda_arch, starting_level, interpolation_type, dy, visit, i) ==
    IF visit.level < starting_level THEN <<>>
    ELSE LET level == visit.level - starting_level
             pos == IF interpolation_type = "Smoothstep"
                    THEN [d \in Dims |-> smoothstep(visit.pos[d])]
                    ELSE [d \in Dims |-> visit.pos[d] * (WDen \div PosDen)]
             grad == [f \in 0..(F - 1) |-> dL_dy(dy, F * level + f, i)]
             vertices == octree_dual_nodes[visit.node]
         IN  Flatten([c \in 1..8 |->
                backward_corner_ops(F, GRAD_T, cuda_arch, vertices[c] * F, grad,
                                    corner_weight(c - 1, pos))])

\* one thread of kernel_takikawa_backward: the atomic operations of sample i
backward_thread_ops(F, GRAD_T, cuda_arch, L, starting_level, interpolation_type, dy, pos, i) ==
    LET t == traverse(L + starting_level, pos)
    IN  Flatten([v \in 1..Len(t.visits) |->
            backward_visit_ops(F, GRAD_T, cuda_arch, starting_level,
                               interpolation_type, dy, t.visits[v], i)])

\* the atomic operations ops[lo..hi] applied in their order (by halves, the
\* first half evaluated before the second is begun)
RECURSIVE ApplyRange(_, _, _, _)
ApplyRange(buf, ops, lo, hi) ==
    IF lo > hi THEN buf
    ELSE IF lo = hi THEN atomicAdd(buf, ops[lo])
    ELSE LET mid == (lo + hi) \div 2
             first == ApplyRange(buf, ops, lo, mid)
         IN  IF DOMAIN first = {} THEN first
             ELSE ApplyRange(first, ops, mid + 1, hi)
ApplyOps(buf, ops) == ApplyRange(buf, ops, 1, Len(ops))

\* the threads' atomic operations, tabulated once per argument list
BackwardOpsTable ==
    [F \in TableF, G \in StorageTypes, a \in Archs, s \in TableLevels,
     t \in InterpolationType, d \in DLDY, p \in Points, i \in TableI |->
        backward_thread_ops(F, G, a, n_levels(s), s, t, d, p, i)]
backward_thread(F, GRAD_T, cuda_arch, L, starting_level, interpolation_type, dy, pos, i) ==
    IF /\ F \in TableF
       /\ GRAD_T \in StorageTypes
       /\ cuda_arch \in Archs
       /\ starting_level \in TableLevels
       /\ interpolation_type \in InterpolationType
       /\ dy \in DLDY
       /\ pos \in Points
       /\ i \in TableI
       /\ L = n_levels(starting_level)
    THEN BackwardOpsTable[F, GRAD_T, cuda_arch, starting_level,
                          interpolation_type, dy, pos, i]
    ELSE backward_thread_ops(F, GRAD_T, cuda_arch, L, starting_level,
                             interpolation_type, dy, pos, i)

\* kernel_takikawa_backward run to completion, thread after thread
kernel_takikawa_backward(F, GRAD_T, cuda_arch, L, starting_level, interpolation_type, param_gradients, data_in, dy) ==
    ApplyOps(param_gradients,
        Flatten([n \in 1..Len(data_in) |->
            backward_thread(F, GRAD_T, cuda_arch, L, starting_level,
                            interpolation_type, dy, data_in[n], n - 1)]))

\* --------------------------------------- kernel_takikawa_backward_input
\* the thread reading the cache feature-major (axis innermost)
backward_input_thread_AxisMinor(num_grid_features, dy, dy_dx, input_index) ==
    LET i == input_index \div 3
        j == input_index - i * 3
    IN  [idx |-> <<j, i>>,
         val |-> SeqSum([k \in 1..num_grid_features |->
                    dL_dy(dy, k - 1, i)
                        * dy_dx[i * num_grid_features * 3 + (k - 1) * 3 + j]])]

\* one thread: dL_dx(j, i) (lines 169-182)
backward_input_thread(num_grid_features, dy, dy_dx, input_index) ==
    LET fan_out_grad == num_grid_features * 3
        i == input_index \div 3
        j == input_index - i * 3
    IN  [idx |-> <<j, i>>,
         val |-> SeqSum([k \in 1..num_grid_features |->
                    dL_dy(dy, k - 1, i)
                        * dy_dx[i * fan_out_grad + j * num_grid_features + (k - 1)]])]

kernel_takikawa_backward_input(num_elements, num_grid_features, dy, dy_dx, dL_dx_buf) ==
    StoreAll(dL_dx_buf,
        [t \in 1..num_elements |->
            backward_input_thread(num_grid_features, dy, dy_dx, t - 1)])

\* ------------------------------------------------------- CudaSurface2D
\* the calls made on the surface over a behaviour
MaxSurfaceCalls == 3

\* the sizes and channel counts a caller resizes to; 5 channels have no
\* cudaChannelFormatDesc (the default of the switch, line 67)
Sizes == {<<1, 1>>, <<2, 1>>, <<2, 2>>}
Channels == {1, 4, 5}

\* how the CUDA calls of resize end (CUDA_CHECK_THROW, lines 69 and 77)
CudaOutcomes == {"ok", "cudaMallocArray fails", "cudaCreateSurfaceObject fails"}

\* the bytes the rest of the program has counted in g_total_n_bytes_allocated
ElsewhereBytes == {0, 64}

\* size_t is 64 bits wide: four limbs of 16 bits, the least significant first
LimbBase == 2 ^ 16
SizeT(n) == <<n % LimbBase, (n \div LimbBase) % LimbBase, 0, 0>>

\* a += b on the atomic size_t: the sum modulo 2^64
SizeTAdd(a, b) ==
    LET s1 == a[1] + b[1]
        s2 == a[2] + b[2] + (s1 \div LimbBase)
        s3 == a[3] + b[3] + (s2 \div LimbBase)
        s4 == a[4] + b[4] + (s3 \div LimbBase)
    IN  <<s1 % LimbBase, s2 % LimbBase, s3 % LimbBase, s4 % LimbBase>>

\* a -= b on the atomic size_t: the difference modulo 2^64
SizeTSub(a, b) ==
    LET d1 == a[1] - b[1]
        d2 == a[2] - b[2] - (IF d1 < 0 THEN 1 ELSE 0)
        d3 == a[3] - b[3] - (IF d2 < 0 THEN 1 ELSE 0)
        d4 == a[4] - b[4] - (IF d3 < 0 THEN 1 ELSE 0)
    IN  <<d1 % LimbBase, d2 % LimbBase, d3 % LimbBase, d4 % LimbBase>>

sizeof_float == 4

\* product(size) * sizeof(float) * n_channels (lines 47 and 71)
n_bytes(size, n_channels) == SizeT(size[1] * size[2] * sizeof_float * n_channels)

\* m_array: no array, or the array cudaMallocArray made with its extent
NoArray == [held |-> FALSE, width |-> 0, height |-> 0, n_channels |-> 0]

\* a surface that holds nothing, as free() leaves it (lines 44, 49-51), and
\* the counter with the bytes of the other allocations
NoSurface(elsewhere) ==
    /\ m_surface = 0
    /\ m_array = NoArray
    /\ m_size = <<0, 0>>
    /\ m_n_channels = 0
    /\ g_total_n_bytes_allocated = SizeT(elsewhere)
    /\ n_bytes_elsewhere = elsewhere
    /\ surface_calls = <<>>

\* the members of the surface and the counter
SurfaceState == [m_surface |-> m_surface, m_array |-> m_array, m_size |-> m_size, m_n_channels |-> m_n_channels, total |-> g_total_n_bytes_allocated]

\* CudaSurface2D::free (lines 40-52)
free(s) ==
    [m_surface |-> 0,
     m_array |-> NoArray,
     m_size |-> <<0, 0>>,
     m_n_channels |-> 0,
     total |-> IF s.m_array.held
               THEN SizeTSub(s.total, n_bytes(s.m_size, s.m_n_channels))
               ELSE s.total]

\* CudaSurface2D::resize (lines 54-81); cuda: how the CUDA calls end
resize(s, size, n_channels, cuda) ==
    IF size = s.m_size /\ n_channels = s.m_n_channels
    THEN [state |-> s, threw |-> FALSE]
    ELSE LET freed == free(s)
             allocated ==
                 [freed EXCEPT
                    !.m_array = [held |-> TRUE, width |-> size[1],
                                 height |-> size[2], n_channels |-> n_channels],
                    !.total = SizeTAdd(freed.total,
                                       n_bytes(freed.m_size, n_channels))]
         IN  IF n_channels \notin 1..4 THEN [state |-> freed, threw |-> TRUE]
             ELSE IF cuda = "cudaMallocArray fails"
             THEN [state |-> freed, threw |-> TRUE]
             ELSE IF cuda = "cudaCreateSurfaceObject fails"
             THEN [state |-> allocated, threw |-> TRUE]
             ELSE [state |-> [allocated EXCEPT !.m_surface = 1,
                                               !.m_size = size,
                                               !.m_n_channels = n_channels],
                   threw |-> FALSE]

\* the members and the counter after a call
StoreSurface(s) ==
    /\ m_surface' = s.m_surface
    /\ m_array' = s.m_array
    /\ m_size' = s.m_size
    /\ m_n_channels' = s.m_n_channels
    /\ g_total_n_bytes_allocated' = s.total

\* a call of free()
Free ==
    /\ Len(surface_calls) < MaxSurfaceCalls
    /\ StoreSurface(free(SurfaceState))
    /\ surface_calls' = Append(surface_calls, [kind |-> "free", size |-> <<0, 0>>, n_channels |-> 0, threw |-> FALSE])
    /\ UNCHANGED <<encoder_vars, n_bytes_elsewhere>>

\* a call of resize(size, n_channels)
Resize ==
    /\ Len(surface_calls) < MaxSurfaceCalls
    /\ \E size \in Sizes, n_channels \in Channels, cuda \in CudaOutcomes :
          LET r == resize(SurfaceState, size, n_channels, cuda)
          IN  /\ StoreSurface(r.state)
              /\ surface_calls' = Append(surface_calls, [kind |-> "resize", size |-> size, n_channels |-> n_channels, threw |-> r.threw])
    /\ UNCHANGED <<encoder_vars, n_bytes_elsewhere>>

\* ------------------------------------------------------- the encoder
F_ == enc.F
L_ == n_levels(enc.starting_level)
GradT == grad_t(enc.F, enc.T, enc.min_arch)

\* the batches a caller passes: up to MaxBatch samples
RECURSIVE SeqsUpTo(_, _)
SeqsUpTo(S, n) ==
    IF n = 0 THEN {<<>>}
    ELSE LET shorter == SeqsUpTo(S, n - 1)
         IN  shorter \cup {Append(q, x) : q \in {r \in shorter : Len(r) = n - 1}, x \in S}
Batches == SeqsUpTo(Points, MaxBatch)

\* what the caller's gradient buffer holds before the first backward
InitialGradients(F, g0) == [k \in 0..(n_params(F) - 1) |-> g0 * WScale * (1 + (k % 3))]

\* the caller's matrices before the encoder has written them
FreshOutput(F, L, n) == [x \in (0..(F * Max(0, L) - 1)) \X (0..(n - 1)) |-> -1]
FreshInputGradient(n) == [x \in (0..2) \X (0..(n - 1)) |-> -1]

\* the context of a forward that allocated no derivative cache
EmptyContext == [kind |-> "forward", has |-> FALSE, dy_dx |-> <<>>]

\* the constructor with the depth check off by one
TakikawaEncoding_StrictBound(starting_level, F) ==
    IF starting_level > m_octree_depth THEN "threw"
    ELSE IF F /= 1 /\ F /= 2 /\ F /= 4 /\ F /= 8 THEN "threw"
    ELSE "ok"

\* the constructor (lines 288-300): whether it returns or throws
TakikawaEncoding(starting_level, F) ==
    IF starting_level >= m_octree_depth THEN "threw"
    ELSE IF F /= 1 /\ F /= 2 /\ F /= 4 /\ F /= 8 THEN "threw"
    ELSE "ok"

\* padded_output_width() and output_width() (lines 406-412)
padded_output_width == m_n_output_dims + m_n_to_pad
output_width == padded_output_width

Init ==
    /\ enc \in [F : FeatureWidths, T : StorageTypes, min_arch : Archs,
                cuda_arch : Archs, starting_level : StartingLevels,
                interpolation_type : InterpolationType]
    /\ enc.cuda_arch >= enc.min_arch
    /\ status = "new"
    /\ m_n_output_dims = 0
    /\ m_n_to_pad = 0
    /\ params = InitialParamsTable[enc.F]
    /\ \E g0 \in {0, 1} : gradients = InitialGradients(enc.F, g0)
    /\ input \in Batches
    /\ dL_doutput \in DLDY
    /\ output = FreshOutput(enc.F, n_levels(enc.starting_level), Len(input))
    /\ ctx = [kind |-> "none", has |-> FALSE, dy_dx |-> <<>>]
    /\ dL_dinput = FreshInputGradient(Len(input))
    /\ calls = <<>>
    /\ last_fwd = [kind |-> "none"]
    /\ skipped = FALSE
    /\ pc = "idle"
    /\ tasks = <<>>
    /\ accum = <<>>
    /\ pending = [kind |-> "none"]
    /\ last_set = [kind |-> "none"]
    /\ NoSurface(0)

\* TakikawaEncoding::TakikawaEncoding (lines 288-300)
Construct ==
    /\ status = "new"
    /\ status' = TakikawaEncoding(enc.starting_level, enc.F)
    /\ m_n_output_dims' = IF status' = "ok" THEN enc.F * n_levels(enc.starting_level)
                          ELSE m_n_output_dims
    /\ UNCHANGED <<surface_vars, enc, m_n_to_pad, params, gradients, input, dL_doutput, output,
                   ctx, dL_dinput, calls, last_fwd, skipped, pc, tasks, accum,
                   pending, last_set>>

\* forward_impl's early return (line 313)
forward_is_noop(want_output, prepare_input_gradients) ==
    (~want_output /\ ~prepare_input_gradients) \/ padded_output_width = 0

\* TakikawaEncoding::forward_impl (lines 304-335); want_output: whether an
\* output matrix is passed
forward_impl(want_output, prepare_input_gradients) ==
    /\ status = "ok"
    /\ pc = "idle"
    /\ last_fwd' = [kind |-> "forward", want_output |-> want_output,
                    prepare_input_gradients |-> prepare_input_gradients,
                    noop |-> forward_is_noop(want_output, prepare_input_gradients)]
    /\ IF forward_is_noop(want_output, prepare_input_gradients)
       THEN /\ ctx' = EmptyContext
            /\ UNCHANGED output
       ELSE /\ output' =
                IF want_output
                THEN kernel_takikawa_out(F_, L_, enc.starting_level,
                         enc.interpolation_type, params, input, output)
                ELSE output
            /\ IF prepare_input_gradients
               THEN \E junk \in Uninit :
                      ctx' = [kind |-> "forward", has |-> TRUE,
                              dy_dx |-> kernel_takikawa_dy_dx(F_, L_,
                                  enc.starting_level, enc.interpolation_type,
                                  params, input,
                                  [k \in 0..(3 * F_ * L_ * Len(input) - 1) |-> junk])]
               ELSE ctx' = EmptyContext
    /\ UNCHANGED <<surface_vars, enc, status, m_n_output_dims, m_n_to_pad, params, gradients,
                   input, dL_doutput, dL_dinput, calls, skipped, pc, tasks, accum,
                   pending, last_set>>

\* the early return without the test of the batch size
backward_is_noop_WidthOnly == padded_output_width = 0

\* backward_impl's early return (lines 347-350)
backward_is_noop == padded_output_width = 0 \/ Len(input) = 0

\* the parameter-gradient engine run in every mode
scatter_enabled_Always(mode) == TRUE

\* whether backward_impl runs the parameter-gradient engine (line 354)
scatter_enabled(mode) == mode /= "Ignore"

\* the accumulation buffer without the cudaMemsetAsync of Overwrite mode
backward_buffer_NoMemset(mode, junk) ==
    IF GradT /= enc.T
    THEN [k \in 0..(n_params(F_) - 1) |-> junk]
    ELSE gradients

\* the buffer the scatter accumulates into (lines 357-369): the gradient
\* buffer itself, or a workspace allocation when grad_t is not T; zeroed in
\* Overwrite mode
backward_buffer(mode, junk) ==
    LET buf == IF GradT /= enc.T
               THEN [k \in 0..(n_params(F_) - 1) |-> junk]
               ELSE gradients
    IN  IF mode = "Overwrite" THEN [k \in DOMAIN buf |-> 0] ELSE buf

\* the gradient buffer once the scatter is done (lines 383-387): the cast
\* copy of the workspace, or the buffer the kernel wrote in place
backward_finalize(buf) ==
    IF GradT /= enc.T
    THEN [i \in 0..(n_params(F_) - 1) |-> buf[i]]
    ELSE buf

\* what the workspace allocation of a call may hold
WorkspaceJunk == IF GradT /= enc.T THEN Uninit ELSE {0}

\* the threads of the backward kernel of this batch
BackwardThreads ==
    [n \in 1..Len(input) |->
        backward_thread(F_, GradT, enc.cuda_arch, L_, enc.starting_level,
                        enc.interpolation_type, dL_doutput, input[n], n - 1)]

\* whether some thread of the batch reaches the branch without an update
BackwardSkips ==
    /\ backward_skips(F_, GradT, enc.cuda_arch)
    /\ \E n \in 1..Len(input) :
          \E v \in 1..Len(traverse(L_ + enc.starting_level, input[n]).visits) :
              traverse(L_ + enc.starting_level, input[n]).visits[v].level
                  >= enc.starting_level

\* the gradient computation w.r.t. the input (lines 390-399)
backward_input(want_dL_dinput) ==
    IF ~want_dL_dinput THEN UNCHANGED <<dL_dinput, status>>
    ELSE IF ctx.has
         THEN /\ dL_dinput' = kernel_takikawa_backward_input(
                                  Len(input) * 3, F_ * L_, dL_doutput, ctx.dy_dx,
                                  dL_dinput)
              /\ UNCHANGED status
         ELSE \* forward.dy_dx.data() is null: the kernel faults
              /\ status' = "fault"
              /\ UNCHANGED dL_dinput

\* a backward call as it is made: its arguments and the buffers before it
CallRecord(mode, want_dL_dinput) ==
    [mode |-> mode, want_dL_dinput |-> want_dL_dinput, noop |-> backward_is_noop,
     gradients |-> gradients, dL_dinput |-> dL_dinput]

\* backward_impl with the scatter's result stored over the parameters
backward_impl_IntoParams(mode, want_dL_dinput) ==
    /\ status = "ok"
    /\ pc = "idle"
    /\ ctx.kind = "forward"
    /\ calls' = Append(calls, CallRecord(mode, want_dL_dinput))
    /\ IF backward_is_noop
       THEN UNCHANGED <<params, dL_dinput, status, skipped>>
       ELSE /\ IF scatter_enabled(mode)
               THEN /\ \E junk \in WorkspaceJunk :
                         params' = backward_finalize(
                             kernel_takikawa_backward(F_, GradT, enc.cuda_arch, L_,
                                 enc.starting_level, enc.interpolation_type,
                                 backward_buffer(mode, junk), input, dL_doutput))
                    /\ skipped' = (skipped \/ BackwardSkips)
               ELSE UNCHANGED <<params, skipped>>
            /\ backward_input(want_dL_dinput)
    /\ UNCHANGED <<surface_vars, enc, m_n_output_dims, m_n_to_pad, gradients, input, dL_doutput,
                   output, ctx, last_fwd, pc, tasks, accum, pending, last_set>>

\* TakikawaEncoding::backward_impl (lines 337-400), each kernel run to its end
backward_impl(mode, want_dL_dinput) ==
    /\ status = "ok"
    /\ pc = "idle"
    /\ ctx.kind = "forward"
    /\ calls' = Append(calls, CallRecord(mode, want_dL_dinput))
    /\ IF backward_is_noop
       THEN UNCHANGED <<gradients, dL_dinput, status, skipped>>
       ELSE /\ IF scatter_enabled(mode)
               THEN /\ \E junk \in WorkspaceJunk :
                         gradients' = backward_finalize(
                             kernel_takikawa_backward(F_, GradT, enc.cuda_arch, L_,
                                 enc.starting_level, enc.interpolation_type,
                                 backward_buffer(mode, junk), input, dL_doutput))
                    /\ skipped' = (skipped \/ BackwardSkips)
               ELSE UNCHANGED <<gradients, skipped>>
            /\ backward_input(want_dL_dinput)
    /\ UNCHANGED <<surface_vars, enc, m_n_output_dims, m_n_to_pad, params, input, dL_doutput,
                   output, ctx, last_fwd, pc, tasks, accum, pending, last_set>>

\* the width check passing every width that leaves room for the output
set_padded_output_width_throws_IfSmaller(w) == w < m_n_output_dims

\* whether CHECK_THROW of set_padded_output_width throws (line 419)
set_padded_output_width_throws(w) == ~(w = m_n_output_dims)

\* TakikawaEncoding::set_padded_output_width (lines 418-420)
set_padded_output_width(w) ==
    /\ status = "ok"
    /\ pc = "idle"
    /\ last_set' = [kind |-> "set_padded_output_width", w |-> w,
                    threw |-> set_padded_output_width_throws(w)]
    /\ UNCHANGED <<surface_vars, enc, status, m_n_output_dims, m_n_to_pad, params, gradients,
                   input, dL_doutput, output, ctx, dL_dinput, calls, last_fwd,
                   skipped, pc, tasks, accum, pending>>

\* TakikawaEncoding::hyperparams (lines 445-451)
hyperparams ==
    [otype |-> "Takikawa",
     starting_level |-> enc.starting_level,
     n_levels |-> m_octree_depth]

Forward == \E want_output \in BOOLEAN, prepare_input_gradients \in BOOLEAN :
               forward_impl(want_output, prepare_input_gradients)

Backward ==
    /\ Len(calls) < MaxBackward
    /\ \E mode \in GradientMode, want_dL_dinput \in BOOLEAN :
          backward_impl(mode, want_dL_dinput)

Next == Construct \/ Forward \/ Backward

Spec == Init /\ [][Next]_vars

\* ------------------------------------------------ the repeated step
\* A training step repeated: the forward pass that a training step makes
\* (output and derivative cache), then up to MaxRepeat backward passes over
\* the same batch.
InitTwice ==
    /\ Init
    /\ TakikawaEncoding(enc.starting_level, enc.F) = "ok"
    /\ enc.interpolation_type = "Linear"
    /\ dL_doutput = "rows"

ForwardTraining == forward_impl(TRUE, TRUE)

BackwardAgain ==
    /\ Len(calls) < MaxRepeat
    /\ \E mode \in GradientMode, want_dL_dinput \in BOOLEAN :
          backward_impl(mode, want_dL_dinput)

NextTwice == Construct \/ ForwardTraining \/ BackwardAgain

SpecTwice == InitTwice /\ [][NextTwice]_vars

\* ------------------------------------- the scatter, atomic by atomic
\* The encoder after construction and a forward pass with an output matrix,
\* with starting level 1 (the threads then have at most two active levels).
InitConc ==
    /\ enc \in [F : FeatureWidths, T : StorageTypes, min_arch : Archs,
                cuda_arch : Archs, starting_level : {1},
                interpolation_type : {"Linear"}]
    /\ enc.cuda_arch >= enc.min_arch
    /\ TakikawaEncoding(enc.starting_level, enc.F) = "ok"
    /\ status = "ok"
    /\ m_n_output_dims = enc.F * n_levels(enc.starting_level)
    /\ m_n_to_pad = 0
    /\ params = InitialParamsTable[enc.F]
    /\ gradients = InitialGradients(enc.F, 1)
    /\ input \in Batches
    /\ dL_doutput = "rows"
    /\ output = kernel_takikawa_out(enc.F, n_levels(enc.starting_level),
                    enc.starting_level, enc.interpolation_type, params, input,
                    FreshOutput(enc.F, n_levels(enc.starting_level), Len(input)))
    /\ ctx = EmptyContext
    /\ dL_dinput = FreshInputGradient(Len(input))
    /\ calls = <<>>
    /\ last_fwd = [kind |-> "forward", want_output |-> TRUE,
                   prepare_input_gradients |-> FALSE, noop |-> FALSE]
    /\ skipped = FALSE
    /\ pc = "idle"
    /\ tasks = <<>>
    /\ accum = <<>>
    /\ pending = [kind |-> "none"]
    /\ last_set = [kind |-> "none"]
    /\ NoSurface(0)

\* backward_impl up to the launch of kernel_takikawa_backward (lines 347-380)
BackwardLaunch(mode) ==
    /\ status = "ok"
    /\ pc = "idle"
    /\ ctx.kind = "forward"
    /\ Len(calls) < MaxLaunch
    /\ ~backward_is_noop
    /\ scatter_enabled(mode)
    /\ \E junk \in WorkspaceJunk : accum' = backward_buffer(mode, junk)
    /\ tasks' = BackwardThreads
    /\ pending' = [kind |-> "backward", mode |-> mode, base |-> accum',
                   call |-> CallRecord(mode, FALSE)]
    /\ pc' = "scatter"
    /\ skipped' = (skipped \/ BackwardSkips)
    /\ UNCHANGED <<surface_vars, enc, status, m_n_output_dims, m_n_to_pad, params, gradients,
                   input, dL_doutput, output, ctx, dL_dinput, calls, last_fwd,
                   last_set>>

\* one thread of the running kernel does its next atomicAdd (lines 245-266)
ScatterStep(n) ==
    /\ pc = "scatter"
    /\ tasks[n] /= <<>>
    /\ accum' = atomicAdd(accum, Head(tasks[n]))
    /\ tasks' = [tasks EXCEPT ![n] = Tail(@)]
    /\ UNCHANGED <<surface_vars, enc, status, m_n_output_dims, m_n_to_pad, params, gradients,
                   input, dL_doutput, output, ctx, dL_dinput, calls, last_fwd,
                   skipped, pc, pending, last_set>>

\* the cast copy not ordered after the kernel
BackwardFinish_Unordered ==
    /\ pc = "scatter"
    /\ gradients' = backward_finalize(accum)
    /\ calls' = Append(calls, pending.call)
    /\ pc' = "idle"
    /\ UNCHANGED <<surface_vars, enc, status, m_n_output_dims, m_n_to_pad, params, input,
                   dL_doutput, output, ctx, dL_dinput, last_fwd, skipped, tasks,
                   accum, pending, last_set>>

\* the kernel has ended: the cast copy and the return (lines 383-400)
BackwardFinish ==
    /\ pc = "scatter"
    /\ \A n \in 1..Len(tasks) : tasks[n] = <<>>
    /\ gradients' = backward_finalize(accum)
    /\ calls' = Append(calls, pending.call)
    /\ pc' = "idle"
    /\ UNCHANGED <<surface_vars, enc, status, m_n_output_dims, m_n_to_pad, params, input,
                   dL_doutput, output, ctx, dL_dinput, last_fwd, skipped, tasks,
                   accum, pending, last_set>>

Launch == \E mode \in GradientMode : BackwardLaunch(mode)
Scatter == \E n \in 1..Len(tasks) : ScatterStep(n)

NextConc == Launch \/ Scatter \/ BackwardFinish

SpecConc == InitConc /\ [][NextConc]_vars

\* ------------------------------------------------- the forward pass alone
\* Construction and forward passes only, for one build per architecture, an
\* all-ones upstream gradient and a zeroed gradient buffer (none of which
\* forward_impl reads).
InitForward ==
    /\ Init
    /\ enc.min_arch = enc.cuda_arch
    /\ gradients = InitialGradients(enc.F, 0)
    /\ dL_doutput = "ones"

NextForward == Construct \/ Forward

SpecForward == InitForward /\ [][NextForward]_vars

\* --------------------------------------------- one build, every call
\* Every call of Spec, for builds whose kernels are compiled for the
\* architecture the encoder's accumulation type was chosen for, over a
\* gradient buffer that holds earlier content.
InitOneBuild ==
    /\ Init
    /\ enc.min_arch = enc.cuda_arch
    /\ gradients = InitialGradients(enc.F, 1)

SpecOneBuild == InitOneBuild /\ [][Next]_vars

\* ------------------------------------------ samples on cell boundaries
\* Every call of Spec over a batch of no sample or of one sample that lies on
\* a boundary of the root cell.
InitBoundary ==
    /\ enc \in [F : FeatureWidths, T : StorageTypes, min_arch : Archs,
                cuda_arch : Archs, starting_level : StartingLevels,
                interpolation_type : InterpolationType]
    /\ enc.cuda_arch = enc.min_arch
    /\ status = "new"
    /\ m_n_output_dims = 0
    /\ m_n_to_pad = 0
    /\ params = InitialParamsTable[enc.F]
    /\ gradients = InitialGradients(enc.F, 1)
    /\ input \in {<<>>} \cup {<<p>> : p \in BoundaryPoints}
    /\ dL_doutput \in DLDY
    /\ output = FreshOutput(enc.F, n_levels(enc.starting_level), Len(input))
    /\ ctx = [kind |-> "none", has |-> FALSE, dy_dx |-> <<>>]
    /\ dL_dinput = FreshInputGradient(Len(input))
    /\ calls = <<>>
    /\ last_fwd = [kind |-> "none"]
    /\ skipped = FALSE
    /\ pc = "idle"
    /\ tasks = <<>>
    /\ accum = <<>>
    /\ pending = [kind |-> "none"]
    /\ last_set = [kind |-> "none"]
    /\ NoSurface(0)

SpecBoundary == InitBoundary /\ [][Next]_vars

\* ------------------------------------------- the width over the life
\* Every operation of the encoder, set_padded_output_width included, over
\* batches of at most one sample.
InitWidth ==
    /\ InitForward
    /\ Len(input) <= 1

SetPaddedOutputWidth == \E w \in PaddedWidths : set_padded_output_width(w)

NextWidth == Construct \/ Forward \/ Backward \/ SetPaddedOutputWidth

SpecWidth == InitWidth /\ [][NextWidth]_vars

\* ---------------------------------------------- the surface over its life
\* a surface that holds nothing, in a program that has counted the bytes of
\* its other allocations; the encoder is not used
InitSurface ==
    /\ enc = [F |-> 1, T |-> "float", min_arch |-> 53, cuda_arch |-> 53, starting_level |-> 0, interpolation_type |-> "Linear"]
    /\ status = "new"
    /\ m_n_output_dims = 0
    /\ m_n_to_pad = 0
    /\ params = InitialParamsTable[enc.F]
    /\ gradients = InitialGradients(enc.F, 0)
    /\ input = <<>>
    /\ dL_doutput = "ones"
    /\ output = FreshOutput(enc.F, n_levels(enc.starting_level), Len(input))
    /\ ctx = [kind |-> "none", has |-> FALSE, dy_dx |-> <<>>]
    /\ dL_dinput = FreshInputGradient(Len(input))
    /\ calls = <<>>
    /\ last_fwd = [kind |-> "none"]
    /\ skipped = FALSE
    /\ pc = "idle"
    /\ tasks = <<>>
    /\ accum = <<>>
    /\ pending = [kind |-> "none"]
    /\ last_set = [kind |-> "none"]
    /\ \E elsewhere \in ElsewhereBytes : NoSurface(elsewhere)

NextSurface == Free \/ Resize

SpecSurface == InitSurface /\ [][NextSurface]_vars

\* ------------------------------------------------------------ properties
\* the backward call made last
LastCall == calls[Len(calls)]

\* the nodes a sample's traversal visits at the active levels
ActiveVisits(pos) ==
    SelectSeq(traverse(m_octree_depth, pos).visits,
              LAMBDA v : v.level >= enc.starting_level)

\* the trilinear weight of corner c (0..7) at the local position pos: per
\* axis the interpolation position if the axis' bit of c is set, and its
\* complement otherwise (a numerator over WScale)
AxisPosition(p) ==
    IF enc.interpolation_type = "Linear" THEN p * (WDen \div PosDen)
    ELSE (3 * p * p * PosDen - 2 * p * p * p) \div 2
TrilinearWeight(pos, c) ==
    LET u(d) == IF (c \div (2 ^ (d - 1))) % 2 = 1
                THEN AxisPosition(pos[d])
                ELSE WDen - AxisPosition(pos[d])
    IN  u(1) * u(2) * u(3)

\* the gradient of slot v * F + f in closed form: the sum over the samples,
\* their active reached levels and the corners that are vertex v of
\* trilinear weight times upstream gradient
ClosedFormGradient(v, f) ==
    SeqSum([n \in 1..Len(input) |->
        LET visits == ActiveVisits(input[n])
        IN  SeqSum([k \in 1..Len(visits) |->
                SeqSum([c \in 1..8 |->
                    IF octree_dual_nodes[visits[k].node][c] = v
                    THEN TrilinearWeight(visits[k].pos, c - 1)
                           * dL_dy(dL_doutput,
                                   (visits[k].level - enc.starting_level) * F_ + f,
                                   n - 1)
                    ELSE 0])])])

\* C1: after a backward in Overwrite mode over any batch, every gradient slot
\* v * F + f holds the closed-form sum of trilinear weight times upstream
\* gradient of feature f, each feature's contribution in its own slot,
\* whatever accumulation type the encoder selects.
C1_EachFeatureInItsOwnSlot ==
    (status = "ok" /\ calls /= <<>> /\ LastCall.mode = "Overwrite" /\ ~LastCall.noop)
        => \A v \in 0..(n_vertices - 1) : \A f \in 0..(F_ - 1) :
               gradients[v * F_ + f] = ClosedFormGradient(v, f)

\* the contributions [idx, val] of the threads of the batch, and a buffer
\* with each of them added to its slot
Contributions == Flatten([n \in 1..Len(input) |-> Flatten(BackwardThreads[n])])
RECURSIVE SumInto(_, _, _, _)
SumInto(buf, parts, lo, hi) ==
    IF lo > hi THEN buf
    ELSE IF lo = hi
         THEN [buf EXCEPT ![parts[lo].idx] = @ + parts[lo].val]
    ELSE LET mid == (lo + hi) \div 2
             first == SumInto(buf, parts, lo, mid)
         IN  IF DOMAIN first = {} THEN first
             ELSE SumInto(first, parts, mid + 1, hi)
PlusContributions(buf) == SumInto(buf, Contributions, 1, Len(Contributions))
NoGradient == [slot \in 0..(n_params(F_) - 1) |-> 0]

\* what the atomic operations of thread n add to a slot
ThreadContribution(n, slot) ==
    LET parts == Flatten(BackwardThreads[n])
    IN  SumInto(NoGradient, parts, 1, Len(parts))[slot]

Reverse(s) == [k \in 1..Len(s) |-> s[Len(s) + 1 - k]]

\* the running kernel has done all its atomic operations
ScatterDone == pc = "scatter" /\ \A n \in 1..Len(tasks) : tasks[n] = <<>>

\* C2: whatever the interleaving of the per-sample tasks, and whatever the
\* order of the samples in the batch, once the scatter is done every slot of
\* the accumulation buffer holds what it held at the launch plus the sum of
\* all contributions to it: none is lost, none is applied twice.
C2_EveryContributionOnce ==
    ScatterDone =>
        /\ accum = PlusContributions(pending.base)
        /\ accum = kernel_takikawa_backward(F_, GradT, enc.cuda_arch, L_,
                        enc.starting_level, enc.interpolation_type, pending.base,
                        Reverse(input), dL_doutput)

\* two different samples have both added a non-zero amount to one slot
C2_SameVertexHit ==
    /\ ScatterDone
    /\ Len(input) = 2
    /\ input[1] /= input[2]
    /\ \E slot \in DOMAIN accum :
          ThreadContribution(1, slot) /= 0 /\ ThreadContribution(2, slot) /= 0

\* C3: a backward in Add mode leaves every gradient slot at its previous
\* content plus this batch's contribution, whether or not the accumulation
\* type is the storage type (so two runs from a zeroed buffer give twice
\* what one run gives).
C3_AddOntoPreviousContent ==
    (status = "ok" /\ calls /= <<>> /\ LastCall.mode = "Add" /\ ~LastCall.noop)
        => gradients = PlusContributions(LastCall.gradients)

\* C4: a backward in Overwrite mode leaves the gradient buffer at the batch's
\* contribution alone, whatever the buffer held before the call, and a second
\* Overwrite backward with the same inputs leaves the buffer as the first did.
C4_OverwriteIdempotent ==
    \A k \in 1..Len(calls) :
        (calls[k].mode = "Overwrite" /\ ~calls[k].noop) =>
            LET after == IF k = Len(calls) THEN gradients ELSE calls[k + 1].gradients
            IN  /\ k = Len(calls) => after = PlusContributions(NoGradient)
                /\ (k > 1 /\ calls[k - 1].mode = "Overwrite" /\ ~calls[k - 1].noop)
                      => after = calls[k].gradients

\* two Overwrite backwards in a row, the first over a non-zero buffer
C4_TwiceOverwritten ==
    /\ Len(calls) = 2
    /\ calls[1].mode = "Overwrite" /\ ~calls[1].noop
    /\ calls[2].mode = "Overwrite" /\ ~calls[2].noop
    /\ calls[1].gradients[0] /= 0
    /\ gradients = calls[2].gradients
    /\ \E slot \in DOMAIN gradients : gradients[slot] /= 0

\* the last forward call wrote the output matrix
OutputWritten ==
    /\ status = "ok"
    /\ last_fwd.kind = "forward"
    /\ last_fwd.want_output
    /\ ~last_fwd.noop

\* the trilinear interpolation of feature f at a visited node: the sum over
\* the 8 corners of weight times parameter (in units of 1 / WScale)
Interpolated(visit, f) ==
    SeqSum([c \in 1..8 |->
        TrilinearWeight(visit.pos, c - 1)
            * params[octree_dual_nodes[visit.node][c] * F_ + f]])

\* the level the traversal of a sample reports
ReportedLevel(pos) == traverse(m_octree_depth, pos).level

\* C5: after a forward with an output matrix, for a sample whose traversal
\* stops early every output level at or above the level the traversal reports
\* (relative to the starting level) is zero in all F features, and every
\* level below it holds the interpolation of the node visited at that level.
C5_UnreachedLevelsAreZero ==
    OutputWritten =>
        \A n \in 1..Len(input) : \A l \in 0..(L_ - 1) : \A f \in 0..(F_ - 1) :
            LET t == traverse(m_octree_depth, input[n])
                abs == l + enc.starting_level
            IN  IF abs >= t.level
                THEN output[<<l * F_ + f, n - 1>>] = 0
                ELSE output[<<l * F_ + f, n - 1>>] = Interpolated(t.visits[abs + 1], f)

\* a sample stopped early: one active level interpolated, a later one zeroed
C5_StoppedEarly ==
    /\ OutputWritten
    /\ \E n \in 1..Len(input) :
          /\ ReportedLevel(input[n]) < m_octree_depth
          /\ ReportedLevel(input[n]) > enc.starting_level
          /\ output[<<(ReportedLevel(input[n]) - enc.starting_level) * F_, n - 1>>] = 0
          /\ output[<<0, n - 1>>] > 0

\* the arguments the constructor must reject
BadArguments ==
    enc.starting_level >= m_octree_depth \/ enc.F \notin {1, 2, 4, 8}

\* C6: construction throws if and only if starting_level >= the octree depth
\* or the feature width is none of 1, 2, 4, 8; otherwise it succeeds with
\* n_levels = depth - starting_level >= 1.
C6_ThrowsExactlyOnBadArguments ==
    status /= "new" =>
        /\ (status = "threw") <=> BadArguments
        /\ status /= "threw" =>
              /\ n_levels(enc.starting_level) = m_octree_depth - enc.starting_level
              /\ n_levels(enc.starting_level) >= 1
              /\ m_n_output_dims = enc.F * (m_octree_depth - enc.starting_level)

\* construction threw for a starting level equal to the depth alone
C6_ThrewAtDepth ==
    /\ status = "threw"
    /\ enc.starting_level = m_octree_depth
    /\ enc.F \in {1, 2, 4, 8}

\* C7: an accumulation type without a safe atomic update path (half with
\* F = 1, or half where atomicAdd(__half2) is missing) never belongs to a
\* constructed encoder, and no backward pass takes the branch that skips the
\* update.
C7_NoUnsafeAccumulation ==
    /\ (GradT = "half" /\ (F_ = 1 \/ enc.cuda_arch < 60))
          => status \in {"new", "threw"}
    /\ skipped = FALSE

\* a backward has updated the gradients of an encoder with half storage and
\* one feature per level
C7_HalfStorageBackwardRan ==
    /\ status = "ok"
    /\ enc.T = "half"
    /\ enc.F = 1
    /\ calls /= <<>>
    /\ LastCall.mode = "Overwrite"
    /\ ~LastCall.noop
    /\ \E slot \in DOMAIN gradients : gradients[slot] /= 0

\* dL_dinput as kernel_takikawa_backward_input must leave it: for sample i
\* and axis j the sum over the features k of dL_dy(k, i) times the cached
\* derivative of feature k along j
InputGradient(dy_dx) ==
    [x \in (0..2) \X (0..(Len(input) - 1)) |->
        SeqSum([k \in 1..(F_ * L_) |->
            dL_dy(dL_doutput, k - 1, x[2])
                * dy_dx[x[2] * 3 * F_ * L_ + x[1] * F_ * L_ + (k - 1)]])]

\* C8: a backward in Ignore mode leaves every gradient slot unchanged and
\* takes no update branch, and still computes dL_dinput from the derivative
\* cache when an input-gradient output is requested.
C8_IgnoreLeavesGradients ==
    [][(calls' /= calls /\ calls'[Len(calls')].mode = "Ignore") =>
          /\ gradients' = gradients
          /\ skipped' = skipped
          /\ (calls'[Len(calls')].want_dL_dinput /\ Len(input) > 0 /\ ctx.has)
                => dL_dinput' = InputGradient(ctx.dy_dx)]_vars

\* an Ignore backward over a non-zero gradient buffer has written dL_dinput
C8_IgnoredWithInputGradient ==
    /\ status = "ok"
    /\ calls /= <<>>
    /\ LastCall.mode = "Ignore"
    /\ LastCall.want_dL_dinput
    /\ ~LastCall.noop
    /\ dL_dinput /= LastCall.dL_dinput
    /\ gradients[0] /= 0

\* C9: a forward with neither an output matrix nor prepare_input_gradients
\* (or with zero output width) changes no buffer and returns an empty
\* context, and a backward with zero output width or an empty batch changes
\* neither the gradient buffer nor dL_dinput, in every gradient mode; neither
\* is an error.
C9_DegenerateCallsAreNoOps ==
    [][/\ (/\ status = "ok"
           /\ calls' = calls
           /\ last_fwd'.kind = "forward"
           /\ \/ ~last_fwd'.want_output /\ ~last_fwd'.prepare_input_gradients
              \/ output_width = 0)
          => (ctx' = EmptyContext /\ output' = output /\ status' = "ok")
       /\ (calls' /= calls /\ (Len(input) = 0 \/ output_width = 0))
          => (gradients' = gradients /\ dL_dinput' = dL_dinput /\ status' = "ok")
      ]_vars

\* an Overwrite backward over an empty batch has left a non-zero gradient
\* buffer alone, after a forward without output and without gradient request
C9_DegenerateCallsMade ==
    /\ status = "ok"
    /\ last_fwd.kind = "forward"
    /\ ~last_fwd.want_output
    /\ ~last_fwd.prepare_input_gradients
    /\ calls /= <<>>
    /\ LastCall.mode = "Overwrite"
    /\ LastCall.want_dL_dinput
    /\ Len(input) = 0
    /\ gradients[0] /= 0

\* C10: for every sample and every reached active level the output rows of
\* the level hold the sum over the 8 corners of trilinear weight times
\* parameter; the 8 weights sum to one, so a sample at the centroid of the
\* node gets the mean of the 8 corner vectors, in both interpolation modes.
C10_TrilinearInterpolation ==
    OutputWritten =>
        \A n \in 1..Len(input) :
            \A k \in 1..Len(ActiveVisits(input[n])) : \A f \in 0..(F_ - 1) :
                LET visit == ActiveVisits(input[n])[k]
                    row == (visit.level - enc.starting_level) * F_ + f
                    corners == SeqSum([c \in 1..8 |->
                        params[octree_dual_nodes[visit.node][c] * F_ + f]])
                IN  /\ output[<<row, n - 1>>] = Interpolated(visit, f)
                    /\ SeqSum([c \in 1..8 |-> TrilinearWeight(visit.pos, c - 1)])
                          = WScale
                    /\ (\A d \in Dims : 2 * visit.pos[d] = PosDen)
                          => 8 * output[<<row, n - 1>>] = WScale * corners

\* the output of a batch with a sample at the root's centroid and a sample
\* off it, in Smoothstep mode
C10_CentroidAndGeneric ==
    /\ OutputWritten
    /\ enc.interpolation_type = "Smoothstep"
    /\ enc.starting_level = 0
    /\ Len(input) = 2
    /\ \A d \in Dims : 2 * input[1][d] = PosDen
    /\ \E d \in Dims : 2 * input[2][d] /= PosDen
    /\ output[<<0, 0>>] > 0
    /\ output[<<0, 1>>] > 0

\* the entries of dL_dx the threads of kernel_takikawa_backward_input store
\* to, thread after thread
BackwardInputTargets ==
    [t \in 1..(Len(input) * 3) |->
        backward_input_thread(F_ * L_, dL_doutput, ctx.dy_dx, t - 1).idx]

\* C11: a backward that is asked for dL_dinput leaves, for every sample i and
\* axis j, dL_dx(j, i) = sum over k of dL_dy(k, i) * dy_dx[i][j][k], the
\* cache read at the place where forward wrote the derivative of level
\* k / F, feature k % F along axis j of sample i; every entry of dL_dx is the
\* target of exactly one thread, and a thread's target is in the column of
\* its own sample.
C11_InputGradientIsDotProduct ==
    [][(/\ calls' /= calls
        /\ calls'[Len(calls')].want_dL_dinput
        /\ ~calls'[Len(calls')].noop
        /\ ctx.has)
          => /\ dL_dinput' = InputGradient(ctx.dy_dx)
             /\ \A n \in 1..Len(input) : \A j \in 0..2 :
                   \A k \in 1..Len(ActiveVisits(input[n])) : \A f \in 0..(F_ - 1) :
                      LET visit == ActiveVisits(input[n])[k]
                          row == (visit.level - enc.starting_level) * F_ + f
                      IN  ctx.dy_dx[(n - 1) * 3 * F_ * L_ + j * F_ * L_ + row]
                             = takikawa_grad(F_, enc.interpolation_type, params,
                                             visit, j, f)
             /\ \A x \in DOMAIN dL_dinput :
                   Cardinality({t \in 1..(Len(input) * 3) :
                                   BackwardInputTargets[t] = x}) = 1
             /\ \A t \in 1..(Len(input) * 3) :
                   BackwardInputTargets[t][2] = (t - 1) \div 3]_vars

\* an Overwrite backward over two samples has written an input gradient that
\* differs between the samples
C11_TwoSamplesWritten ==
    /\ status = "ok"
    /\ calls /= <<>>
    /\ LastCall.mode = "Overwrite"
    /\ LastCall.want_dL_dinput
    /\ ~LastCall.noop
    /\ ctx.has
    /\ Len(input) = 2
    /\ dL_dinput = InputGradient(ctx.dy_dx)
    /\ \E j \in 0..2 : dL_dinput[<<j, 0>>] /= dL_dinput[<<j, 1>>]
    /\ \E j \in 0..2 : dL_dinput[<<j, 0>>] > 0

\* the derivative cache entry of sample i (from 0), axis j, output row
CacheEntry(i, j, row) == ctx.dy_dx[i * 3 * F_ * L_ + j * F_ * L_ + row]

\* the sum over the 4 pairs of corners of a node that differ only in bit d
\* (d in 0..2) of the bilinear weight of the other two axes times the
\* difference of feature f between the corner with bit d set and the one
\* with bit d clear (a numerator over WDen * WDen)
PairDifferences(visit, d, f) ==
    LET others == (0..2) \ {d}
        bilinear(c) ==
            LET u(e) == IF (c \div (2 ^ e)) % 2 = 1
                        THEN AxisPosition(visit.pos[e + 1])
                        ELSE WDen - AxisPosition(visit.pos[e + 1])
                a == CHOOSE e \in others : \A o \in others : e <= o
                b == CHOOSE e \in others : \A o \in others : e >= o
            IN  u(a) * u(b)
        low == {c \in 0..7 : (c \div (2 ^ d)) % 2 = 0}
        term(c) == bilinear(c)
                     * (params[octree_dual_nodes[visit.node][c + 2 ^ d + 1] * F_ + f]
                        - params[octree_dual_nodes[visit.node][c + 1] * F_ + f])
        seq == [k \in 1..8 |-> IF (k - 1) \in low THEN term(k - 1) ELSE 0]
    IN  SeqSum(seq)

\* the local derivative factor along an axis at local position p (a numerator
\* over DDen): 1 in Linear mode, 6 p (1 - p) in Smoothstep mode
LocalDerivativeFactor(p) ==
    IF enc.interpolation_type = "Linear" THEN DDen
    ELSE (6 * p * (PosDen - p) * DDen) \div (PosDen * PosDen)

\* the central difference of the node's interpolation of feature f along
\* axis d over one coordinate step either side, times the cells per unit
\* length at the node's level (in the units of twice a cache entry)
CentralDifference(visit, d, f) ==
    (2 ^ visit.level)
        * (Interpolated([visit EXCEPT !.pos[d + 1] = @ + 1], f)
           - Interpolated([visit EXCEPT !.pos[d + 1] = @ - 1], f))

C13_OutputWidthIsFixed ==
    /\ [](status = "ok" =>
            /\ output_width = padded_output_width
            /\ padded_output_width = enc.F * (m_octree_depth - enc.starting_level))
    /\ [][last_set' /= last_set =>
            /\ last_set'.threw
                  <=> (last_set'.w /= enc.F * (m_octree_depth - enc.starting_level))
            /\ UNCHANGED <<enc, status, m_n_output_dims, m_n_to_pad, params,
                           gradients, output, ctx, dL_dinput>>]_vars

\* after a forward and a backward, set_padded_output_width was called with
\* the encoder's own width and did not throw
C13_OwnWidthAccepted ==
    /\ status = "ok"
    /\ last_fwd.kind = "forward"
    /\ calls /= <<>>
    /\ last_set.kind = "set_padded_output_width"
    /\ last_set.w = output_width
    /\ ~last_set.threw

\* C14: hyperparams() of a constructed encoder holds the starting level, the
\* derived level count (octree depth - starting level, what n_levels()
\* returns) and the interpolation mode the encoder was constructed with.
C14_HyperparamsReportConfiguration ==
    status = "ok" =>
        /\ hyperparams.starting_level = enc.starting_level
        /\ hyperparams.n_levels = n_levels(enc.starting_level)
        /\ \E key \in DOMAIN hyperparams \cap {"interpolation", "interpolation_type"} :
              hyperparams[key] = enc.interpolation_type

\* a parameter buffer that is 1 in one slot and 0 elsewhere
UnitGrid(slot) == [k \in 0..(n_params(F_) - 1) |-> IF k = slot THEN 1 ELSE 0]

\* the nodes the traversal of a sample visits, active or not
AllVisits(pos) == traverse(m_octree_depth, pos).visits

\* the last backward call ran the parameter-gradient kernel
ScatterRan ==
    /\ status = "ok"
    /\ calls /= <<>>
    /\ LastCall.mode /= "Ignore"
    /\ ~LastCall.noop

\* C15: for every sample the backward kernel's thread does the atomic
\* operations of exactly the nodes the forward thread visits; at a node below
\* the starting level both do nothing; at an active node the forward writes
\* the F rows of output level (octree level - starting level) and the
\* backward reads the upstream gradient of the same rows, and at each of the 8
\* corners the backward adds to the slot of the vertex the forward reads,
\* upstream gradient times the weight the forward gives that vertex.
C15_BackwardRetracesForward ==
    (ScatterRan /\ OutputWritten) =>
        \A n \in 1..Len(input) :
            LET visits == AllVisits(input[n])
                per_visit(visit) ==
                    backward_visit_ops(F_, GradT, enc.cuda_arch, enc.starting_level,
                                       enc.interpolation_type, dL_doutput, visit, n - 1)
            IN  /\ BackwardThreads[n]
                      = Flatten([k \in 1..Len(visits) |-> per_visit(visits[k])])
                /\ \A k \in 1..Len(visits) :
                      LET visit == visits[k]
                          level == visit.level - enc.starting_level
                          fwd == takikawa_out_writes(F_, enc.starting_level,
                                     enc.interpolation_type, params, visit, n - 1)
                          bwd == per_visit(visit)
                          per == Len(bwd) \div 8
                          vertices == octree_dual_nodes[visit.node]
                      IN  IF visit.level < enc.starting_level
                          THEN fwd = <<>> /\ bwd = <<>>
                          ELSE /\ Len(fwd) = F_
                               /\ \A f \in 1..F_ :
                                     /\ fwd[f].idx = <<level * F_ + (f - 1), n - 1>>
                                     /\ output[fwd[f].idx] = fwd[f].val
                               /\ per > 0 /\ Len(bwd) = 8 * per
                               /\ \A c \in 1..8 :
                                     LET op == bwd[(c - 1) * per + 1][1]
                                     IN  /\ op.idx = vertices[c] * F_
                                         /\ op.val =
                                              dL_dy(dL_doutput, F_ * level, n - 1)
                                                * takikawa_result(F_,
                                                      enc.interpolation_type,
                                                      UnitGrid(vertices[c] * F_),
                                                      visit, 0)

\* forward and backward have both run in Smoothstep mode with starting level
\* 1 over a sample that descends the whole depth off the cell centres
C15_SmoothstepBothPasses ==
    /\ ScatterRan
    /\ OutputWritten
    /\ enc.interpolation_type = "Smoothstep"
    /\ enc.starting_level = 1
    /\ \E n \in 1..Len(input) :
          /\ Len(AllVisits(input[n])) = m_octree_depth
          /\ \E d \in Dims : input[n][d] \notin {0, PosDen \div 2, PosDen}
    /\ LastCall.mode = "Overwrite"
    /\ \E slot \in DOMAIN gradients : gradients[slot] /= 0

\* the slots the atomic operations of the batch's threads add to
ScatterSlots ==
    UNION {LET thread == BackwardThreads[n]
           IN  UNION {{thread[k][a].idx : a \in 1..Len(thread[k])} :
                         k \in 1..Len(thread)} :
              n \in 1..Len(input)}

\* C16: at every node a sample's traversal visits at an active level, each of
\* the 8 vertex indices the kernels read is in [0, n_vertices), never the
\* sentinel -1, so the parameters param_idx .. param_idx + F - 1 that the
\* forward and the derivative computation read are inside [0, n_params), and
\* so is every slot the backward kernel adds to; also for a sample whose
\* traversal leaves the populated region.
C16_VertexIndicesAreValid ==
    /\ \A n \in 1..Len(input) : \A k \in 1..Len(ActiveVisits(input[n])) :
          \A c \in 1..8 :
             LET vertex == octree_dual_nodes[ActiveVisits(input[n])[k].node][c]
                 param_idx == vertex * F_
             IN  /\ vertex >= 0 /\ vertex < n_vertices
                 /\ param_idx >= 0 /\ param_idx + F_ - 1 < n_params(F_)
                 /\ \A f \in 0..(F_ - 1) : (param_idx + f) \in DOMAIN params
    /\ ScatterRan =>
          /\ DOMAIN gradients = 0..(n_params(F_) - 1)
          /\ ScatterSlots \subseteq DOMAIN gradients

\* forward (output and derivative cache) and backward have run over a batch
\* with a sample in an unpopulated octant of the root and a sample that
\* reaches the node holding the last vertex
C16_OutsideAndDeepest ==
    /\ ScatterRan
    /\ OutputWritten
    /\ ctx.has
    /\ enc.starting_level = 0
    /\ \E n \in 1..Len(input) : ReportedLevel(input[n]) = 1
    /\ \E n \in 1..Len(input) : \E k \in 1..Len(ActiveVisits(input[n])) :
          \E c \in 1..8 :
             octree_dual_nodes[ActiveVisits(input[n])[k].node][c] = n_vertices - 1
    /\ (n_params(F_) - F_) \in ScatterSlots

\* C17: in every sequence of forward and backward calls, a backward call
\* reads the derivative cache only when dL_dinput is requested, and then the
\* context it is given holds a cache that a forward with
\* prepare_input_gradients = true allocated and wrote for the batch: it never
\* reads a null cache.
C17_CacheReadOnlyAfterPrepare ==
    [][calls' /= calls =>
          LET call == calls'[Len(calls')]
          IN  /\ (~call.want_dL_dinput \/ call.noop) => dL_dinput' = dL_dinput
              /\ (call.want_dL_dinput /\ ~call.noop)
                    => /\ ctx.has
                       /\ last_fwd.prepare_input_gradients
                       /\ status' = "ok"]_vars

\* C18: with an accumulation type that is not the storage type, the running
\* scatter leaves the caller's gradient buffer as it was at the call and adds
\* to the workspace only; the gradient buffer changes in one step, the cast
\* copy of the whole workspace, taken when every atomic add of every thread
\* is done; after an Overwrite backward it holds the complete sums.
C18_CastCopyAfterScatter ==
    /\ []((pc = "scatter" /\ GradT /= enc.T)
            => gradients = pending.call.gradients)
    /\ [][(gradients' /= gradients /\ GradT /= enc.T)
            => /\ ScatterDone
               /\ \A i \in 0..(n_params(F_) - 1) : gradients'[i] = accum[i]]_vars
    /\ []((pc = "idle" /\ calls /= <<>> /\ LastCall.mode = "Overwrite"
              /\ GradT /= enc.T)
            => gradients = PlusContributions(NoGradient))

\* an Overwrite backward over two samples with float accumulation for half
\* storage has ended and replaced the gradient buffer's content
C18_WorkspaceCopied ==
    /\ pc = "idle"
    /\ calls /= <<>>
    /\ LastCall.mode = "Overwrite"
    /\ enc.T = "half"
    /\ GradT = "float"
    /\ Len(input) = 2
    /\ gradients /= LastCall.gradients
    /\ \E slot \in DOMAIN gradients : gradients[slot] /= 0

\* the stores to data_out of the forward thread of sample n, in their order
ThreadOutWrites(n) ==
    IF Tabulated(F_, L_, enc.starting_level, enc.interpolation_type, params,
                 input[n], n - 1)
    THEN ThreadOutTable[F_, enc.starting_level, enc.interpolation_type,
                        input[n], n - 1]
    ELSE takikawa_thread_out(F_, L_, enc.starting_level, enc.interpolation_type,
                             params, input[n], n - 1)

\* C19: for every sample, the visit of a node below the starting level
\* stores nothing to the output or the derivative cache and adds nothing to
\* the gradients; the visit at octree level s + l stores to the F rows of
\* output level l and to the cache entries of level l only; and every row of
\* the sample's output column is stored to exactly once, by one node's
\* interpolation or by the zero fill, and holds the value of that store.
C19_OneNodePerLevel ==
    (OutputWritten /\ ctx.has /\ ScatterRan) =>
        \A n \in 1..Len(input) :
            LET visits == AllVisits(input[n])
                i == n - 1
                writes == ThreadOutWrites(n)
            IN  /\ \A k \in 1..Len(visits) :
                      LET visit == visits[k]
                          l == visit.level - enc.starting_level
                          out == takikawa_out_writes(F_, enc.starting_level,
                                     enc.interpolation_type, params, visit, i)
                          cache == takikawa_dy_dx_writes(F_, L_, enc.starting_level,
                                       enc.interpolation_type, params, visit, i)
                          ops == backward_visit_ops(F_, GradT, enc.cuda_arch,
                                     enc.starting_level, enc.interpolation_type,
                                     dL_doutput, visit, i)
                      IN  IF visit.level < enc.starting_level
                          THEN out = <<>> /\ cache = <<>> /\ ops = <<>>
                          ELSE /\ {out[a].idx : a \in 1..Len(out)}
                                    = {<<l * F_ + f, i>> : f \in 0..(F_ - 1)}
                               /\ {cache[a].idx : a \in 1..Len(cache)}
                                    = {i * 3 * F_ * L_ + j * F_ * L_ + l * F_ + f :
                                          j \in 0..2, f \in 0..(F_ - 1)}
                /\ \A row \in 0..(F_ * L_ - 1) :
                      Cardinality({a \in 1..Len(writes) :
                                      writes[a].idx = <<row, i>>}) = 1
                /\ \A a \in 1..Len(writes) :
                      /\ writes[a].idx[2] = i
                      /\ output[writes[a].idx] = writes[a].val

\* with starting level 1, a sample at the root's centroid has its visit of
\* the root skipped, output level 0 interpolated at octree level 1 and output
\* level 1 zero-filled
C19_SkippedInterpolatedFilled ==
    /\ OutputWritten
    /\ ctx.has
    /\ ScatterRan
    /\ enc.starting_level = 1
    /\ \E n \in 1..Len(input) :
          /\ Len(AllVisits(input[n])) = 2
          /\ output[<<0, n - 1>>] /= 0
          /\ output[<<F_, n - 1>>] = 0

\* the weight the forward gives corner c (1..8) of a visited node: its output
\* for a parameter buffer that is 1 at the corner's vertex and 0 elsewhere
ForwardWeight(visit, c) ==
    takikawa_result(F_, enc.interpolation_type,
                    UnitGrid(octree_dual_nodes[visit.node][c] * F_), visit, 0)

\* the corners of a cell on the side of the point along axis d (1..3) when
\* the local coordinate p is exactly 0 or exactly 1
NearSide(d, p) == {c \in 1..8 : Bit(c - 1, d) = (IF p = 0 THEN 0 ELSE 1)}

\* C20: where a component of the node-local position is exactly 0 or exactly
\* 1, in both interpolation modes the four corners on the far side of that
\* axis get weight 0 and the other axes alone decide the weights of the four
\* near corners (a point on a corner of the cell gives one weight 1 and seven
\* weights 0); the backward adds upstream gradient times exactly these
\* weights, and the output is the sum over the near corners alone.
C20_BoundaryWeightsAreZeroOrOne ==
    (OutputWritten /\ ScatterRan) =>
        \A n \in 1..Len(input) : \A k \in 1..Len(ActiveVisits(input[n])) :
            LET visit == ActiveVisits(input[n])[k]
                level == visit.level - enc.starting_level
                ops == backward_visit_ops(F_, GradT, enc.cuda_arch,
                           enc.starting_level, enc.interpolation_type,
                           dL_doutput, visit, n - 1)
                per == Len(ops) \div 8
                on == {d \in Dims : visit.pos[d] \in {0, PosDen}}
                near == {c \in 1..8 : \A d \in on : c \in NearSide(d, visit.pos[d])}
            IN  /\ \A c \in 1..8 :
                      /\ c \notin near => ForwardWeight(visit, c) = 0
                      /\ (on = Dims /\ c \in near) => ForwardWeight(visit, c) = WScale
                      /\ ops[(c - 1) * per + 1][1].val
                            = dL_dy(dL_doutput, F_ * level, n - 1)
                                * ForwardWeight(visit, c)
                /\ SeqSum([c \in 1..8 |->
                       IF c \in near THEN ForwardWeight(visit, c) ELSE 0]) = WScale
                /\ \A f \in 0..(F_ - 1) :
                      output[<<level * F_ + f, n - 1>>]
                        = SeqSum([c \in 1..8 |->
                            IF c \in near
                            THEN ForwardWeight(visit, c)
                                   * params[octree_dual_nodes[visit.node][c] * F_ + f]
                            ELSE 0])

\* forward and backward have run in Smoothstep mode over the sample whose
\* local coordinate is 1 along the first axis at two levels
C20_OnTheFaceAtOne ==
    /\ OutputWritten
    /\ ScatterRan
    /\ enc.interpolation_type = "Smoothstep"
    /\ enc.starting_level = 0
    /\ Len(input) = 1
    /\ input[1][1] = PosDen
    /\ Len(ActiveVisits(input[1])) = 2
    /\ ActiveVisits(input[1])[2].pos[1] = PosDen
    /\ ActiveVisits(input[1])[2].pos[2] = 0
    /\ output[<<0, 0>>] > 0

\* C21: no forward and no backward call, in any gradient mode, changes the
\* parameter buffer (the octree's node and dual-node arrays are constants of
\* the encoder); a forward changes only the output matrix and the context it
\* returns, a backward only the gradient buffer and dL_dinput.
C21_ParametersAreReadOnly ==
    [][/\ params' = params
       /\ last_fwd' /= last_fwd =>
             (gradients' = gradients /\ dL_dinput' = dL_dinput)
       /\ calls' /= calls => (output' = output /\ ctx' = ctx)]_vars

\* a forward with output and derivative cache and an Add backward with
\* dL_dinput have both written their buffers, the parameters being as given
C21_BothPassesWrote ==
    /\ OutputWritten
    /\ ctx.has
    /\ ScatterRan
    /\ LastCall.mode = "Add"
    /\ LastCall.want_dL_dinput
    /\ gradients /= LastCall.gradients
    /\ dL_dinput /= LastCall.dL_dinput
    /\ params = InitialParams(F_)

\* the stores to dy_dx of the forward thread of sample n, in their order
ThreadDyDxWrites(n) ==
    IF Tabulated(F_, L_, enc.starting_level, enc.interpolation_type, params,
                 input[n], n - 1)
    THEN ThreadDyDxTable[F_, enc.starting_level, enc.interpolation_type,
                         input[n], n - 1]
    ELSE takikawa_thread_dy_dx(F_, L_, enc.starting_level,
                               enc.interpolation_type, params, input[n], n - 1)

\* C22: the visitor is called only at octree levels below starting_level +
\* n_levels, so every output row a thread stores to is below F * n_levels and
\* in the column of its own sample, and every derivative-cache index it
\* stores to is inside its own sample's block of 3 * F * n_levels entries;
\* the buffers keep their extent and no two samples store to the same place.
C22_WritesStayInOwnRegion ==
    (OutputWritten /\ ctx.has) =>
        /\ DOMAIN output = (0..(F_ * L_ - 1)) \X (0..(Len(input) - 1))
        /\ DOMAIN ctx.dy_dx = 0..(3 * F_ * L_ * Len(input) - 1)
        /\ \A n \in 1..Len(input) :
              LET i == n - 1
                  out == ThreadOutWrites(n)
                  cache == ThreadDyDxWrites(n)
                  block == 3 * F_ * L_
              IN  /\ \A k \in 1..Len(AllVisits(input[n])) :
                        AllVisits(input[n])[k].level < enc.starting_level + L_
                  /\ \A a \in 1..Len(out) :
                        /\ out[a].idx[1] >= 0 /\ out[a].idx[1] < F_ * L_
                        /\ out[a].idx[2] = i
                  /\ \A a \in 1..Len(cache) :
                        /\ cache[a].idx >= i * block
                        /\ cache[a].idx < (i + 1) * block
                        /\ ctx.dy_dx[cache[a].idx] = cache[a].val

\* a forward over two samples has written the deepest level of the second
\* sample: the last row of the last column of the output
C22_LastRowOfLastSample ==
    /\ OutputWritten
    /\ ctx.has
    /\ Len(input) = 2
    /\ Len(AllVisits(input[1])) < m_octree_depth
    /\ Len(AllVisits(input[2])) = m_octree_depth
    /\ output[<<F_ * L_ - 1, 1>>] /= 0
    /\ Len(ThreadDyDxWrites(2)) = 3 * F_ * L_

\* the derivative cache a forward over the current batch leaves when the
\* entries no visit stores to hold zero
ReachedLevelsCache ==
    kernel_takikawa_dy_dx(F_, L_, enc.starting_level, enc.interpolation_type,
        params, input, [k \in 0..(3 * F_ * L_ * Len(input) - 1) |-> 0])

\* C23: every derivative-cache entry that backward-to-input reads has a
\* defined value, zero at the levels the sample's traversal did not reach, so
\* dL_dx is the sum over the reached levels only of dL_dy times the stored
\* derivative and does not depend on what the allocation held before.
C23_UnreachedLevelsAreDefined ==
    [][(/\ calls' /= calls
        /\ calls'[Len(calls')].want_dL_dinput
        /\ ~calls'[Len(calls')].noop
        /\ ctx.has)
          => /\ ctx.dy_dx = ReachedLevelsCache
             /\ dL_dinput' = InputGradient(ReachedLevelsCache)]_vars

\* the bytes of the array the surface holds: width * height * sizeof(float) *
\* n_channels, zero when it holds none
HeldBytes ==
    IF m_array.held
    THEN SizeT(m_array.width * m_array.height * sizeof_float * m_array.n_channels)
    ELSE SizeT(0)

\* C24: after any sequence of resize and free calls the surface contributes
\* to g_total_n_bytes_allocated the bytes of the array it holds, zero when it
\* holds none, so the counter never goes below the bytes counted elsewhere; a
\* resize to the current size and channel count changes nothing, and a free
\* of a surface that holds nothing changes nothing.
C24_CounterMatchesHeldArray ==
    /\ [](g_total_n_bytes_allocated = SizeTAdd(SizeT(n_bytes_elsewhere), HeldBytes))
    /\ [][surface_calls' /= surface_calls =>
            LET call == surface_calls'[Len(surface_calls')]
                same == /\ m_surface' = m_surface
                        /\ m_array' = m_array
                        /\ m_size' = m_size
                        /\ m_n_channels' = m_n_channels
                        /\ g_total_n_bytes_allocated' = g_total_n_bytes_allocated
            IN  /\ (/\ call.kind = "resize"
                    /\ call.size = m_size
                    /\ call.n_channels = m_n_channels) => same
                /\ (/\ call.kind = "free"
                    /\ ~m_array.held
                    /\ m_surface = 0) => same]_vars

====
